---- MODULE Spec2Model ----
(***************************************************************************)
(* A model of the arXiv RSS filter bot: the delivery history of the two    *)
(* e-mail channels (email_subscription.py, conference_subscription.py),    *)
(* the paper filter (paper_processor.py), the feed-based fetch             *)
(* (arxiv_fetcher.py), the conference fetch (openreview_fetcher.py) and    *)
(* the orchestrator entry points (main.py).  Each part has its own         *)
(* specification; the orchestrator drives the feed-based fetch as its      *)
(* fallback strategy, the other parts do not share state.                  *)
(***************************************************************************)
EXTENDS Integers, Sequences, FiniteSets, TLC

\* ------------------------------------------------------------------ bounds
\* Runs of a channel that are followed.
MaxRuns == 3
\* Items of one RSS file, papers of one conference file.
MaxItems == 2
\* Conference files found by one run.
MaxFiles == 2
\* Papers handed to process_papers.
MaxPapers == 2

\* ------------------------------------------------------------- generalities
Range(s) == {s[i] : i \in 1..Len(s)}

SeqsUpTo(S, n) == UNION {[1..k -> S] : k \in 0..n}

\* ============================================================= delivery ===
\* The guids an RSS item can carry.
Guids == {"g1", "g2"}

\* The ids a conference paper can carry; "" is the id format_paper_data
\* writes when the note has none (openreview_fetcher.py:186).
PaperIds == {"p1", ""}

Conferences == {"ICLR", "NeurIPS"}

\* How the step after a successful send ends.
\*   written        the history file was rewritten
\*   open_failed    open() raised: logged, the file is as before
\*   write_failed   json.dump raised after open(.., 'w') truncated the file
\*   stopped_before the process stopped before save_..._history was entered
\*   stopped_within the process stopped inside save_..._history, after open()
SaveOutcomes ==
    {"written", "open_failed", "write_failed", "stopped_before", "stopped_within"}

VARIABLES
    channel,                \* which entry point this installation runs
    clock,                  \* datetime.now(), one tick per run
    subscription_file,      \* subscription_history.json
    feedRss,                \* the guids of the RSS file the latest run parsed
    feedPassed,             \* the guids the latest run passed to send_subscription_email
    feedSend,               \* "none" | "failed" | "ok": the latest run's send
    feedSaved,              \* guids sent by a run whose save completed
    feedKept,               \* the same, since the file was last left unreadable
    feedStop,               \* batch of the latest run that stopped between send and save
    feedAfterStop,          \* per guid, successful sends since that run
    feedLost,               \* batch of the latest run that sent without persisting
    feedAfterLost,          \* per guid, successful sends since that run
    feedSave,               \* "none", or how the latest run's save ended
    feedReturned            \* "True" | "False": what the latest run returned; "none": it stopped

feedVars ==
    <<subscription_file, feedRss, feedPassed, feedSend, feedSaved, feedKept,
      feedStop, feedAfterStop, feedLost, feedAfterLost, feedSave, feedReturned>>

VARIABLES
    conference_file,        \* conference_subscription_history.json
    v_pc,                   \* "idle" | "loop": where process_conference_subscription is
    v_files_left,           \* conference files the loop has not handled yet
    v_sent_papers,          \* the run's sent_papers set
    v_sent_by_conference,   \* the run's sent_by_conference dict
    total_new_papers,
    successful_sends,
    venuePassed,            \* the ids the latest step passed to the send call
    venueSent,              \* ids that were in a successful send call
    venueSavesOk,           \* every run that sent papers completed its save
    venueSave,              \* "none", or how the latest run's save ended
    venueReturned           \* "True" | "False": what the latest run returned; "none": it has not

venueVars ==
    <<conference_file, v_pc, v_files_left, v_sent_papers, v_sent_by_conference,
      total_new_papers, successful_sends, venuePassed, venueSent, venueSavesOk,
      venueSave, venueReturned>>

VARIABLES
    p_pc,                   \* "call" | "done": process_papers has returned or not
    p_config,               \* keywords, max_days_old, date_range
    p_now,                  \* datetime.now(timezone.utc) of the call
    p_papers,               \* the papers argument
    p_evaluated,            \* per paper: keyword_matches, is_recent, is_in_date_range
    processed_papers        \* the list returned

procVars == <<p_pc, p_config, p_now, p_papers, p_evaluated, processed_papers>>

VARIABLES
    fetch,                  \* the feed-based fetch: its loop variables and where it is
    f_last,                 \* the latest page request: bucket, offset, how it ended
    f_count,                \* requests issued so far for the page of f_last
    f_sleeps,               \* the time.sleep calls since the latest request
    f_exhausted,            \* the latest page that used up its attempts
    f_collected             \* entries appended to a paper list since the fetch began

fetchVars == <<fetch, f_last, f_count, f_sleeps, f_exhausted, f_collected>>

VARIABLES
    orch,                   \* an orchestrator entry point of main.py: its locals and where it is
    o_stages                \* per stage of the run: "idle" | "started" | "succeeded" | "failed"

orchVars == <<orch, o_stages>>

VARIABLES
    d_dataset,              \* the fixed dataset a fetch is served from: papers per bucket
    d_boundary,             \* its papers submitted on the day two buckets meet
    d_taken                 \* per bucket, how many of its papers (newest first) were fetched

dataVars == <<d_dataset, d_boundary, d_taken>>

VARIABLES
    conf,                   \* run_conference_fetch: its conference_list and how far the loop is
    results,                \* its result map, by conference name
    output_files            \* the conferences whose papers file was written

confVars == <<conf, results, output_files>>

VARIABLES
    sel,                    \* select_papers_for_ai_analysis: its arguments and what it returned
    sched                   \* ConferenceScheduler: self.config and the dicts it refers to

vars == <<channel, clock, feedVars, venueVars, procVars, fetchVars, orchVars, dataVars, confVars, sel, sched>>

\* The file does not exist.
AbsentFeedFile == [status |-> "absent", sent_papers |-> {}, last_sent |-> 0]

\* The file exists and json.load raises on it.
CorruptFeedFile == [status |-> "corrupt", sent_papers |-> {}, last_sent |-> 0]

\* {"sent_papers": [], "last_sent": None}; last_sent None is 0.
EmptyFeedHistory == [sent_papers |-> {}, last_sent |-> 0]

load_subscription_history_all_sent(file) ==
    IF file.status = "ok"
    THEN [sent_papers |-> file.sent_papers, last_sent |-> file.last_sent]
    ELSE [sent_papers |-> Guids, last_sent |-> 0]

load_subscription_history(file) ==
    IF file.status = "ok"
    THEN [sent_papers |-> file.sent_papers, last_sent |-> file.last_sent]
    ELSE EmptyFeedHistory

save_subscription_history(file, history, outcome) ==
    CASE outcome = "written" ->
            [status |-> "ok", sent_papers |-> history.sent_papers,
             last_sent |-> history.last_sent]
      [] outcome \in {"write_failed", "stopped_within"} -> CorruptFeedFile
      [] OTHER -> file

\* An RSS file is "none" (no .xml file), "unparseable", or its items' guids.
RssFiles == {<<"none">>, <<"unparseable">>} \cup SeqsUpTo(Guids, MaxItems)

parse_rss_file(rss) ==
    IF rss \in {<<"none">>, <<"unparseable">>} THEN <<>> ELSE rss

feed_new_papers_all(all_papers, sent_papers) == all_papers

feed_new_papers(all_papers, sent_papers) ==
    SelectSeq(all_papers, LAMBDA g : g \notin sent_papers)

send_subscription_email(papers, smtpOk) ==
    IF papers = <<>> THEN FALSE ELSE smtpOk

feed_updates_history_always(new_papers, success) == new_papers # <<>>

feed_sent_after_none(sent_papers, new_papers) == sent_papers

\* Lines 393-394: every guid of the batch is added, whatever its value.
feed_sent_after(sent_papers, new_papers) == sent_papers \cup Range(new_papers)

\* Lines 387-391: the history is touched in the success branch only.
feed_updates_history(new_papers, success) == new_papers # <<>> /\ success

run_subscription_returns_if_saved(success, outcome) == success /\ outcome = "written"

\* Lines 398-407: True after a successful send, whatever the save call did.
run_subscription_returns(success, outcome) == success

\* run_subscription, from the history load to the return.
run_subscription(enabled, rss, smtpOk, outcome) ==
    LET history == load_subscription_history(subscription_file)
        sent_papers == history.sent_papers
        all_papers == parse_rss_file(rss)
        reads == enabled /\ rss # <<"none">>
        new_papers == IF reads THEN feed_new_papers(all_papers, sent_papers) ELSE <<>>
        called == new_papers # <<>>
        success == called /\ send_subscription_email(new_papers, smtpOk)
        updates == feed_updates_history(new_papers, success)
        updated == [sent_papers |-> feed_sent_after(sent_papers, new_papers),
                    last_sent |-> clock]
        batch == Range(new_papers)
        persisted == success /\ outcome = "written"
        unreadable == updates /\ outcome \in {"write_failed", "stopped_within"}
        stopped == success /\ outcome \in {"stopped_before", "stopped_within"}
        lost == success /\ outcome # "written"
        bump(f) == [g \in Guids |-> IF success /\ g \in batch THEN f[g] + 1 ELSE f[g]]
        zero == [g \in Guids |-> 0]
    IN  /\ channel = "feed"
        /\ clock <= MaxRuns
        /\ updates \/ outcome = "written"
        /\ clock' = clock + 1
        /\ UNCHANGED <<channel, venueVars, procVars, fetchVars, orchVars, dataVars, confVars, sel, sched>>
        /\ subscription_file' =
              IF updates
              THEN save_subscription_history(subscription_file, updated, outcome)
              ELSE subscription_file
        /\ feedRss' = IF reads THEN Range(all_papers) ELSE {}
        /\ feedPassed' = batch
        /\ feedSend' = IF ~called THEN "none" ELSE IF success THEN "ok" ELSE "failed"
        /\ feedSaved' = IF persisted THEN feedSaved \cup batch ELSE feedSaved
        /\ feedKept' = IF unreadable THEN {}
                       ELSE IF persisted THEN feedKept \cup batch ELSE feedKept
        /\ feedStop' = IF stopped THEN batch ELSE feedStop
        /\ feedAfterStop' = IF stopped THEN zero ELSE bump(feedAfterStop)
        /\ feedLost' = IF lost THEN batch ELSE feedLost
        /\ feedAfterLost' = IF lost THEN zero ELSE bump(feedAfterLost)
        /\ feedSave' = IF updates THEN outcome ELSE "none"
        /\ feedReturned' = IF stopped THEN "none"
                           ELSE IF run_subscription_returns(success, outcome) THEN "True"
                           ELSE "False"

RunSubscription ==
    \E enabled \in BOOLEAN, rss \in RssFiles, smtpOk \in BOOLEAN, outcome \in SaveOutcomes :
        run_subscription(enabled, rss, smtpOk, outcome)

FeedInit ==
    /\ subscription_file = AbsentFeedFile
    /\ feedRss = {}
    /\ feedPassed = {}
    /\ feedSend = "none"
    /\ feedSaved = {}
    /\ feedKept = {}
    /\ feedStop = {}
    /\ feedAfterStop = [g \in Guids |-> 0]
    /\ feedLost = {}
    /\ feedAfterLost = [g \in Guids |-> 0]
    /\ feedSave = "none"
    /\ feedReturned = "none"

\* ------------------------------------------------------- venue channel ---
\* dict.get(name, []) on a dict whose keys are DOMAIN d.
DictGet(d, name) == IF name \in DOMAIN d THEN d[name] ELSE <<>>

EmptyDict == [c \in {} |-> <<>>]

AbsentVenueFile ==
    [status |-> "absent", sent_papers |-> {}, sent_by_conference |-> EmptyDict,
     last_sent |-> 0]

CorruptVenueFile ==
    [status |-> "corrupt", sent_papers |-> {}, sent_by_conference |-> EmptyDict,
     last_sent |-> 0]

\* {"sent_papers": [], "last_sent": None, "sent_by_conference": {}}
EmptyVenueHistory ==
    [sent_papers |-> {}, sent_by_conference |-> EmptyDict, last_sent |-> 0]

load_conference_subscription_history(file) ==
    IF file.status = "ok"
    THEN [sent_papers |-> file.sent_papers,
          sent_by_conference |-> file.sent_by_conference,
          last_sent |-> file.last_sent]
    ELSE EmptyVenueHistory

save_conference_subscription_history(file, history, outcome) ==
    CASE outcome = "written" ->
            [status |-> "ok", sent_papers |-> history.sent_papers,
             sent_by_conference |-> history.sent_by_conference,
             last_sent |-> history.last_sent]
      [] outcome \in {"write_failed", "stopped_within"} -> CorruptVenueFile
      [] OTHER -> file

\* A conference file: unusable (parse_conference_file gives {}), or the
\* conference name and the ids of its papers.
ConferenceFiles ==
    {[valid |-> FALSE, conference |-> "Unknown", papers |-> <<>>]} \cup
    [valid : {TRUE}, conference : Conferences, papers : SeqsUpTo(PaperIds, MaxItems)]

\* Line 385.
conference_new_papers(all_papers, sent_papers, conference_sent_papers) ==
    SelectSeq(all_papers,
              LAMBDA p : p \notin sent_papers /\ p \notin conference_sent_papers)

send_conference_subscription_email(new_papers, smtpOk) ==
    IF new_papers = <<>> THEN FALSE ELSE smtpOk

\* Line 403, `if paper_id:`: the ids the history update keeps.
conference_recorded(new_papers) == SelectSeq(new_papers, LAMBDA p : p # "")

\* Lines 361-364 and the loads before them.
VenueBegin ==
    \E enabled \in BOOLEAN, n \in 0..MaxFiles :
        LET history == load_conference_subscription_history(conference_file)
            starts == enabled /\ n > 0
        IN  /\ channel = "venue"
            /\ v_pc = "idle"
            /\ clock <= MaxRuns
            /\ v_pc' = IF starts THEN "loop" ELSE "idle"
            /\ v_files_left' = IF starts THEN n ELSE 0
            /\ v_sent_papers' = IF starts THEN history.sent_papers ELSE {}
            /\ v_sent_by_conference' =
                  IF starts THEN history.sent_by_conference ELSE EmptyDict
            /\ clock' = IF starts THEN clock ELSE clock + 1
            /\ venuePassed' = {}
            /\ venueSave' = "none"
            /\ venueReturned' = IF starts THEN "none" ELSE "False"
            /\ UNCHANGED <<feedVars, procVars, fetchVars, orchVars, dataVars, confVars, sel, sched, channel, conference_file, total_new_papers,
                           successful_sends, venueSent, venueSavesOk>>

\* One iteration of the loop of lines 370-414.
process_conference_file(data, smtpOk) ==
    LET conference_name == data.conference
        conference_sent_papers == Range(DictGet(v_sent_by_conference, conference_name))
        new_papers == IF data.valid
                      THEN conference_new_papers(data.papers, v_sent_papers,
                                                 conference_sent_papers)
                      ELSE <<>>
        success == new_papers # <<>> /\
                   send_conference_subscription_email(new_papers, smtpOk)
        recorded == conference_recorded(new_papers)
    IN  /\ channel = "venue"
        /\ v_pc = "loop"
        /\ v_files_left > 0
        /\ v_files_left' = v_files_left - 1
        /\ successful_sends' = IF success THEN successful_sends + 1 ELSE successful_sends
        /\ total_new_papers' =
              IF success THEN total_new_papers + Len(new_papers) ELSE total_new_papers
        /\ v_sent_papers' =
              IF success THEN v_sent_papers \cup Range(recorded) ELSE v_sent_papers
        /\ v_sent_by_conference' =
              IF success
              THEN [c \in DOMAIN v_sent_by_conference \cup {conference_name} |->
                       IF c = conference_name
                       THEN DictGet(v_sent_by_conference, c) \o recorded
                       ELSE v_sent_by_conference[c]]
              ELSE v_sent_by_conference
        /\ venuePassed' = Range(new_papers)
        /\ venueSent' = IF success THEN venueSent \cup Range(new_papers) ELSE venueSent
        /\ UNCHANGED <<feedVars, procVars, fetchVars, orchVars, dataVars, confVars, sel, sched, channel, clock, conference_file, v_pc, venueSavesOk,
                       venueSave, venueReturned>>

VenueFile ==
    \E data \in ConferenceFiles, smtpOk \in BOOLEAN : process_conference_file(data, smtpOk)

\* Line 417.
venue_saves(total) == total > 0

\* Line 427.
process_conference_subscription_returns(total) == total > 0

\* Lines 416-427.
VenueEnd ==
    \E outcome \in SaveOutcomes :
        LET saves == venue_saves(total_new_papers)
            updated == [sent_papers |-> v_sent_papers,
                        sent_by_conference |-> v_sent_by_conference,
                        last_sent |-> clock]
        IN  /\ channel = "venue"
            /\ v_pc = "loop"
            /\ v_files_left = 0
            /\ saves \/ outcome = "written"
            /\ conference_file' =
                  IF saves
                  THEN save_conference_subscription_history(conference_file, updated, outcome)
                  ELSE conference_file
            /\ venueSavesOk' = (venueSavesOk /\ (successful_sends > 0 => outcome = "written"))
            /\ venueSave' = IF saves THEN outcome ELSE "none"
            /\ venueReturned' =
                  IF saves /\ outcome \in {"stopped_before", "stopped_within"} THEN "none"
                  ELSE IF process_conference_subscription_returns(total_new_papers)
                       THEN "True" ELSE "False"
            /\ v_pc' = "idle"
            /\ v_sent_papers' = {}
            /\ v_sent_by_conference' = EmptyDict
            /\ total_new_papers' = 0
            /\ successful_sends' = 0
            /\ venuePassed' = {}
            /\ clock' = clock + 1
            /\ UNCHANGED <<feedVars, procVars, fetchVars, orchVars, dataVars, confVars, sel, sched, channel, v_files_left, venueSent>>

\* The process stops inside the loop: what the run sent is not saved.
VenueStop ==
    /\ channel = "venue"
    /\ v_pc = "loop"
    /\ v_files_left > 0
    /\ successful_sends > 0
    /\ venueSavesOk' = FALSE
    /\ venueSave' = "none"
    /\ venueReturned' = "none"
    /\ v_pc' = "idle"
    /\ v_files_left' = 0
    /\ v_sent_papers' = {}
    /\ v_sent_by_conference' = EmptyDict
    /\ total_new_papers' = 0
    /\ successful_sends' = 0
    /\ venuePassed' = {}
    /\ clock' = clock + 1
    /\ UNCHANGED <<feedVars, procVars, fetchVars, orchVars, dataVars, confVars, sel, sched, channel, conference_file, venueSent>>

VenueInit ==
    /\ conference_file = AbsentVenueFile
    /\ v_pc = "idle"
    /\ v_files_left = 0
    /\ v_sent_papers = {}
    /\ v_sent_by_conference = EmptyDict
    /\ total_new_papers = 0
    /\ successful_sends = 0
    /\ venuePassed = {}
    /\ venueSent = {}
    /\ venueSavesOk = TRUE
    /\ venueSave = "none"
    /\ venueReturned = "none"

\* =============================================================== filter ===
\* A datetime, to the hour.  NoDate is a missing (None) date.
NoDate == [year |-> 0, month |-> 0, day |-> 0, hour |-> 0]

Date(y, m, d, h) == [year |-> y, month |-> m, day |-> d, hour |-> h]

IsLeap(y) == y % 4 = 0 /\ (y % 100 # 0 \/ y % 400 = 0)

DaysBeforeMonth(y, m) ==
    <<0, 31, 59, 90, 120, 151, 181, 212, 243, 273, 304, 334>>[m]
      + (IF m > 2 /\ IsLeap(y) THEN 1 ELSE 0)

\* datetime.toordinal()
Ordinal(dt) ==
    LET y == dt.year - 1
    IN  y * 365 + (y \div 4) - (y \div 100) + (y \div 400)
          + DaysBeforeMonth(dt.year, dt.month) + dt.day

Hours(dt) == Ordinal(dt) * 24 + dt.hour

\* (a - b).days: a timedelta's days are the floor of the difference.
DeltaDays(a, b) == (Hours(a) - Hours(b)) \div 24

\* Text is a sequence of characters.
Lower(ch) ==
    CASE ch = "A" -> "a" [] ch = "G" -> "g" [] ch = "L" -> "l" [] ch = "R" -> "r"
      [] OTHER -> ch

WordChars ==
    {"a", "b", "c", "d", "e", "f", "g", "h", "i", "l", "m", "n", "o", "p", "r", "s", "t"}

\* re.findall(r'\w+', text.lower()): the maximal runs of word characters.
RECURSIVE Tokens(_, _, _)
Tokens(text, i, cur) ==
    IF i > Len(text)
    THEN IF cur = <<>> THEN <<>> ELSE <<cur>>
    ELSE IF Lower(text[i]) \in WordChars
         THEN Tokens(text, i + 1, Append(cur, Lower(text[i])))
         ELSE (IF cur = <<>> THEN <<>> ELSE <<cur>>) \o Tokens(text, i + 1, <<>>)

\* PorterStemmer.stem on the words of the model's texts.
PorterStemNone(w) == w

PorterStem(w) ==
    CASE w = <<"a", "g", "e", "n", "t", "s">> -> <<"a", "g", "e", "n", "t">>
      [] w = <<"b", "a", "s", "e", "d">> -> <<"b", "a", "s", "e">>
      [] w = <<"g", "r", "a", "p", "h", "s">> -> <<"g", "r", "a", "p", "h">>
      [] w = <<"r", "e", "i", "n", "f", "o", "r", "c", "e", "m", "e", "n", "t">> ->
            <<"r", "e", "i", "n", "f", "o", "r", "c">>
      [] w = <<"l", "e", "a", "r", "n", "i", "n", "g">> -> <<"l", "e", "a", "r", "n">>
      [] OTHER -> w

RECURSIVE JoinWords(_)
JoinWords(ws) ==
    IF ws = <<>> THEN <<>>
    ELSE IF Len(ws) = 1 THEN ws[1]
    ELSE ws[1] \o <<" ">> \o JoinWords(Tail(ws))

stem_text(text) ==
    LET ws == Tokens(text, 1, <<>>)
    IN  JoinWords([i \in 1..Len(ws) |-> PorterStem(ws[i])])

\* Python's `a in b` on strings.
Contains(b, a) ==
    \E i \in 0..(Len(b) - Len(a)) : SubSeq(b, i + 1, i + Len(a)) = a

check_keywords(paper, keywords) ==
    IF keywords = <<>> THEN <<>>
    ELSE LET title == stem_text(paper.title)
             summary == stem_text(paper.summary)
         IN  SelectSeq(keywords,
                       LAMBDA k : Contains(title, stem_text(k))
                                    \/ Contains(summary, stem_text(k)))

check_recency_published_only(paper, now, max_days_old) ==
    IF paper.published = NoDate THEN FALSE
    ELSE LET days == DeltaDays(now, paper.published)
         IN  (IF days < 0 THEN 0 ELSE days) <= max_days_old

check_recency(paper, now, max_days_old) ==
    LET pub_date == paper.published
        update_date == paper.updated
    IN  IF pub_date = NoDate THEN FALSE
        ELSE LET paper_date ==
                     IF update_date # NoDate /\ Hours(update_date) > Hours(pub_date)
                     THEN update_date ELSE pub_date
                 days == DeltaDays(now, paper_date)
                 days_old == IF days < 0 THEN 0 ELSE days
             IN  days_old <= max_days_old

\* A date_range is NoRange (None or {}) or a dict; a missing or falsy year or
\* month is 0.
NoRange == [given |-> FALSE, year |-> 0, month |-> 0]

check_date_range_either(paper, date_range) ==
    IF ~date_range.given THEN TRUE
    ELSE IF paper.published = NoDate THEN FALSE
    ELSE IF date_range.year = 0 /\ date_range.month = 0 THEN TRUE
    ELSE \/ date_range.year # 0 /\ paper.published.year = date_range.year
         \/ date_range.month # 0 /\ paper.published.month = date_range.month

check_date_range(paper, date_range) ==
    IF ~date_range.given THEN TRUE
    ELSE LET pub_date == paper.published
             year == date_range.year
             month == date_range.month
         IN  IF pub_date = NoDate THEN FALSE
             ELSE IF year = 0 /\ month = 0 THEN TRUE
             ELSE LET year_match == ~(year # 0 /\ pub_date.year # year)
                      month_match == ~(month # 0 /\ pub_date.month # month)
                  IN  year_match /\ month_match

\* Lines 62-70: the three checks of one loop iteration.
evaluate(paper, config, now) ==
    [keyword_matches |-> check_keywords(paper, config.keywords),
     is_recent |-> check_recency(paper, now, config.max_days_old),
     is_in_date_range |-> IF config.date_range.given
                          THEN check_date_range(paper, config.date_range)
                          ELSE TRUE]

keeps_ignoring_keywords(keywords, e) == e.is_recent /\ e.is_in_date_range

\* Line 83.
keeps(keywords, e) ==
    (keywords = <<>> \/ e.keyword_matches # <<>>) /\ e.is_recent /\ e.is_in_date_range

\* list.sort(key=published, reverse=True): stable, newest first.
RECURSIVE sort_by_published_desc(_)
sort_by_published_desc(ps) ==
    IF ps = <<>> THEN <<>>
    ELSE LET rest == sort_by_published_desc(Tail(ps))
             x == Head(ps)
             before == SelectSeq(rest, LAMBDA q : Hours(q.published) > Hours(x.published))
             after == SelectSeq(rest, LAMBDA q : Hours(q.published) <= Hours(x.published))
         IN  before \o <<x>> \o after

unsorted(ps) == ps

\* Line 87.
sort_processed(ps) == sort_by_published_desc(ps)

process_papers(papers, config, now) ==
    LET es == [i \in 1..Len(papers) |-> evaluate(papers[i], config, now)]
        idx == SelectSeq([i \in 1..Len(papers) |-> i],
                         LAMBDA i : keeps(config.keywords, es[i]))
        kept == [k \in 1..Len(idx) |->
                    [id |-> papers[idx[k]].id,
                     published |-> papers[idx[k]].published,
                     updated |-> papers[idx[k]].updated,
                     keyword_matches |-> es[idx[k]].keyword_matches,
                     is_recent |-> es[idx[k]].is_recent,
                     is_in_date_range |-> es[idx[k]].is_in_date_range]]
    IN  [evaluated |-> es, processed |-> sort_processed(kept)]

\* ---- the inputs of the filter
Now == Date(2025, 6, 2, 12)

PublishedDates ==
    {NoDate,
     Date(2025, 6, 3, 0),      \* 12 hours ahead
     Date(2025, 6, 1, 13),     \* 23 hours old
     Date(2025, 6, 1, 11),     \* 25 hours old
     Date(2025, 5, 31, 12),    \* 48 hours old
     Date(2024, 6, 1, 12)}     \* a year old, a leap day in between

UpdatedDates == {NoDate, Date(2025, 6, 1, 13)}

TextAgent == <<"A", "g", "e", "n", "t", "-", "b", "a", "s", "e", "d">>
TextGraphs == <<"G", "r", "a", "p", "h", "s">>
KeywordAgents == <<"a", "g", "e", "n", "t", "s">>

TextReinforcement ==
    <<"R", "e", "i", "n", "f", "o", "r", "c", "e", "m", "e", "n", "t", "-", "L", "e", "a", "r", "n", "i", "n", "g">>
KeywordReinforcement ==
    <<"r", "e", "i", "n", "f", "o", "r", "c", "e", "m", "e", "n", "t", " ", "l", "e", "a", "r", "n", "i", "n", "g">>
KeywordGraphs == <<"g", "r", "a", "p", "h", "s">>
KeywordLearningAgents ==
    <<"l", "e", "a", "r", "n", "i", "n", "g", " ", "a", "g", "e", "n", "t", "s">>

\* Keywords of one configuration handed to check_keywords.
MaxKeywords == 2

KeywordPapers ==
    [title : {TextAgent, TextReinforcement, TextGraphs},
     summary : {TextGraphs, TextReinforcement},
     published : {Date(2025, 6, 1, 13)}, updated : {NoDate}]

KeywordConfigs ==
    [keywords : SeqsUpTo({KeywordAgents, KeywordReinforcement, KeywordGraphs,
                          KeywordLearningAgents}, MaxKeywords),
     max_days_old : {1},
     date_range : {NoRange}]

PaperPool ==
    [title : {TextAgent, TextGraphs}, summary : {TextGraphs},
     published : PublishedDates, updated : UpdatedDates]

Configs ==
    [keywords : {<<>>, <<KeywordAgents>>},
     max_days_old : {0, 1},
     date_range : {NoRange} \cup [given : {TRUE}, year : {0, 2025}, month : {0, 6}]]

WithIds(raw) ==
    [i \in 1..Len(raw) |->
        [id |-> i, title |-> raw[i].title, summary |-> raw[i].summary,
         published |-> raw[i].published, updated |-> raw[i].updated]]

ProcIdle ==
    /\ p_pc = "idle"
    /\ p_config = [keywords |-> <<>>, max_days_old |-> 0, date_range |-> NoRange]
    /\ p_now = Now
    /\ p_papers = <<>>
    /\ p_evaluated = <<>>
    /\ processed_papers = <<>>

ProcessPapers ==
    /\ p_pc = "call"
    /\ LET r == process_papers(p_papers, p_config, p_now)
       IN  /\ p_evaluated' = r.evaluated
           /\ processed_papers' = r.processed
    /\ p_pc' = "done"
    /\ UNCHANGED <<p_config, p_now, p_papers, channel, clock, feedVars, venueVars, fetchVars, orchVars, dataVars, confVars, sel, sched>>

\* ================================================================ fetch ===
page_size == 100
max_retries == 3
batch_days == 90
papers_per_day_per_category == 20
hard_maximum == 10000
page_delay == 3
error_delay == 5

Min(a, b) == IF a < b THEN a ELSE b
Max(a, b) == IF a > b THEN a ELSE b

\* Lines 110-111.
actual_max_results(categories, max_results, max_days_old) ==
    Min(hard_maximum,
        Max(max_results, max_days_old * categories * papers_per_day_per_category))

num_batches_floor(max_days_old) == max_days_old \div batch_days

\* Line 244.
num_batches(max_days_old) == (max_days_old + batch_days - 1) \div batch_days

\* Line 247.
batch_max_results(max_results, max_days_old) ==
    Max(100, max_results \div num_batches(max_days_old))

NoPage == [batch |-> -1, start |-> -1]

\* The loop variables when _fetch_via_feedparser (or _fetch_in_batches, for
\* more than 90 days) reaches its first page request.  batch_papers is the
\* list the page loop appends to: all_papers itself without buckets.
fetch_start(categories, max_results, max_days_old) ==
    LET ceiling == actual_max_results(categories, max_results, max_days_old)
        batched == max_days_old > batch_days
        limit == IF batched THEN batch_max_results(ceiling, max_days_old) ELSE ceiling
    IN  [pc |-> IF limit > 0 THEN "page" ELSE "done",
         batched |-> batched,
         limit |-> limit,
         max_results |-> ceiling,
         max_days_old |-> max_days_old,
         num_batches |-> IF batched THEN num_batches(max_days_old) ELSE 1,
         batch |-> 0,
         start |-> 0,
         retry_count |-> 0,
         batch_papers |-> 0,
         all_papers |-> 0]

end_of_pages_without_bucket(s) ==
    [s EXCEPT !.pc = "done", !.batch_papers = 0, !.retry_count = 0]

\* The page loop of a bucket is over (lines 364-370), or the page loop of
\* the fetch without buckets is (lines 224-225).
end_of_pages(s) ==
    LET total == s.all_papers + s.batch_papers
    IN  IF ~s.batched
        THEN [s EXCEPT !.pc = "done", !.all_papers = s.batch_papers, !.retry_count = 0]
        ELSE IF total >= s.max_results \/ s.batch + 1 >= s.num_batches
        THEN [s EXCEPT !.pc = "done", !.all_papers = total, !.batch_papers = 0,
                       !.retry_count = 0]
        ELSE [s EXCEPT !.all_papers = total, !.batch_papers = 0, !.batch = s.batch + 1,
                       !.start = 0, !.retry_count = 0]

\* The for statement takes the next offset, and the check at the top of
\* the loop body (lines 128, 276) runs.
next_page(s) ==
    IF s.start + page_size >= s.limit \/ s.batch_papers >= s.limit
    THEN end_of_pages(s)
    ELSE [s EXCEPT !.start = s.start + page_size, !.retry_count = 0]

retry_exhausted_late(retry_count) == retry_count > max_retries

\* Lines 156, 304.
retry_exhausted(retry_count) == retry_count >= max_retries

after_page_error_abort(s) == end_of_pages(s)

\* Lines 219-222, 360-362: the handler is inside the for loop, which goes on.
after_page_error(s) == next_page(s)

after_empty_page_continue(s) == next_page(s)

\* Lines 165-174, 313-315: break.
after_empty_page(s) == end_of_pages(s)

\* max_results of the request: lines 137, 285.
requested(s) == Min(page_size, s.limit - s.start)

page(s) == [batch |-> s.batch, start |-> s.start]

\* requests.get or raise_for_status raises.
RequestFails ==
    LET retry_count == fetch.retry_count + 1
        gives_up == retry_exhausted(retry_count)
    IN  /\ fetch.pc = "page"
        /\ fetch' = IF gives_up THEN after_page_error(fetch)
                ELSE [fetch EXCEPT !.retry_count = retry_count]
        /\ f_last' = [batch |-> fetch.batch, start |-> fetch.start,
                      result |-> IF gives_up THEN "exhausted" ELSE "failed"]
        /\ f_count' = IF page(fetch) = [batch |-> f_last.batch, start |-> f_last.start]
                      THEN f_count + 1 ELSE 1
        /\ f_sleeps' = IF gives_up THEN <<error_delay>> ELSE <<2 ^ retry_count>>
        /\ f_exhausted' = IF gives_up THEN page(fetch) ELSE f_exhausted
        /\ f_collected' = f_collected

\* The request succeeds and the feed has n entries.
RequestReturns(n) ==
    /\ fetch.pc = "page"
    /\ fetch' = IF n = 0 THEN after_empty_page(fetch)
            ELSE next_page([fetch EXCEPT !.batch_papers = fetch.batch_papers + n])
    /\ f_last' = [batch |-> fetch.batch, start |-> fetch.start,
                  result |-> IF n = 0 THEN "empty" ELSE "ok"]
    /\ f_count' = IF page(fetch) = [batch |-> f_last.batch, start |-> f_last.start]
                  THEN f_count + 1 ELSE 1
    /\ f_sleeps' = IF n = 0 THEN <<>> ELSE <<page_delay>>
    /\ f_exhausted' = f_exhausted
    /\ f_collected' = f_collected + n

\* The request succeeds and handling the response raises after j entries
\* were appended: the handler of lines 219-222, 360-362 runs.
ResponseRaises(j) ==
    /\ fetch.pc = "page"
    /\ fetch' = after_page_error([fetch EXCEPT !.batch_papers = fetch.batch_papers + j])
    /\ f_last' = [batch |-> fetch.batch, start |-> fetch.start, result |-> "raised"]
    /\ f_count' = IF page(fetch) = [batch |-> f_last.batch, start |-> f_last.start]
                  THEN f_count + 1 ELSE 1
    /\ f_sleeps' = <<error_delay>>
    /\ f_exhausted' = f_exhausted
    /\ f_collected' = f_collected + j

FetchFails ==
    RequestFails /\ UNCHANGED <<channel, clock, feedVars, venueVars, procVars, orchVars, dataVars, confVars, sel, sched>>

FetchReturns ==
    /\ \E n \in {0, requested(fetch)} : RequestReturns(n)
    /\ UNCHANGED <<channel, clock, feedVars, venueVars, procVars, orchVars, dataVars, confVars, sel, sched>>

FetchRaises ==
    /\ \E j \in {0} : ResponseRaises(j)
    /\ UNCHANGED <<channel, clock, feedVars, venueVars, procVars, orchVars, dataVars, confVars, sel, sched>>

\* categories (their number), max_results, max_days_old of the calls followed.
FetchInputs ==
    [categories : {1}, max_results : {50, 250}, max_days_old : {1, 91}]
      \cup [categories : {0}, max_results : {150, 250, 450}, max_days_old : {200}]

FetchIdle ==
    /\ fetch = fetch_start(0, 0, 0)
    /\ f_last = [batch |-> -1, start |-> -1, result |-> "none"]
    /\ f_count = 0
    /\ f_sleeps = <<>>
    /\ f_exhausted = NoPage
    /\ f_collected = 0

\* ---- a fetch served from a fixed dataset, every request succeeding
\* The buckets of a 200-day window.
Buckets == 1..3

\* Papers per bucket; 1800 is what the code expects of 90 days (line 110).
Datasets == [Buckets -> {0, 1000, 1800}]

\* The days two consecutive buckets meet on: 90 and 180 days before now.
Boundaries == 1..2

\* Lines 259-265: bucket b asks for the whole days from start_date to
\* end_date, and its start_date is the end_date of bucket b + 1: the papers
\* of that day are in the range of both.
newer_day(boundary, b) == IF b - 1 \in Boundaries THEN boundary[b - 1] ELSE 0

older_day(boundary, b) == IF b \in Boundaries THEN boundary[b] ELSE 0

in_range(dataset, boundary, b) ==
    newer_day(boundary, b) + dataset[b] + older_day(boundary, b)

\* The paper of rank k, newest first, in the range of bucket b.
paper_at(dataset, boundary, b, k) ==
    IF k <= newer_day(boundary, b) THEN <<"day", b - 1, k>>
    ELSE IF k <= newer_day(boundary, b) + dataset[b]
         THEN <<"in", b, k - newer_day(boundary, b)>>
         ELSE <<"day", b, k - newer_day(boundary, b) - dataset[b]>>

\* The entries of the page the source returns to the request of s: the
\* query is sorted by submission date, newest first, and restricted to the
\* dates of the bucket (lines 259-266, 280-286).
available(s, dataset, boundary) ==
    Min(requested(s), Max(0, in_range(dataset, boundary, s.batch + 1) - s.start))

FetchServes ==
    /\ fetch.pc = "page"
    /\ LET n == available(fetch, d_dataset, d_boundary)
       IN  /\ RequestReturns(n)
           /\ d_taken' = [d_taken EXCEPT ![fetch.batch + 1] = d_taken[fetch.batch + 1] + n]
    /\ UNCHANGED <<channel, clock, feedVars, venueVars, procVars, orchVars, confVars, sel, sched, d_dataset, d_boundary>>

\* The page loop of lines 125-217 over the whole window, every request
\* succeeding: the number of entries collected from offset start on.
RECURSIVE single_pages(_, _, _)
single_pages(total, ceiling, start) ==
    IF start >= ceiling THEN 0
    ELSE LET n == Min(Min(page_size, ceiling - start), Max(0, total - start))
         IN  IF n = 0 THEN 0 ELSE n + single_pages(total, ceiling, start + page_size)

\* What one fetch without buckets takes of each bucket's papers: the newest
\* papers of the window, up to the ceiling.
single_taken(dataset, ceiling) ==
    LET k == single_pages(dataset[1] + dataset[2] + dataset[3], ceiling, 0)
    IN  [b \in Buckets |->
            Min(dataset[b],
                Max(0, k - (IF b > 1 THEN dataset[1] ELSE 0)
                         - (IF b > 2 THEN dataset[2] ELSE 0)))]

\* The ids of the papers taken: bucket and rank in the bucket.
IdsTaken(taken) == {<<b, k>> : b \in Buckets, k \in 1..Max(taken[1], Max(taken[2], taken[3]))}
                     \cap UNION {{b} \X (1..taken[b]) : b \in Buckets}

\* The datasets for repeated papers: a day's worth of papers, or
\* none, inside each bucket, and one paper, or none, on each boundary day.
SmallDatasets == [Buckets -> {0, 20}]

BoundaryDays == [Boundaries -> {0, 1}]

DataIdle ==
    /\ d_dataset = [b \in Buckets |-> 0]
    /\ d_boundary = [j \in Boundaries |-> 0]
    /\ d_taken = [b \in Buckets |-> 0]

\* ===================================================== conference fetch ===
\* The names in conference_list; the result map, the history file and the
\* scheduler identify a conference by its name.
ConferenceNames == {"ICLR", "NeurIPS", "ICML"}

ConferenceLists ==
    {l \in SeqsUpTo(ConferenceNames, Cardinality(ConferenceNames)) :
        l # <<>> /\ \A i, j \in 1..Len(l) : i # j => l[i] # l[j]}

\* How the loop body ends for one conference:
\*   raises      fetch_conference_papers (or the history update) raised
\*   no_papers   fetch_conference_papers returned []
\*   save_failed save_conference_papers returned None
\*   saved       the papers file was written
ConferenceOutcomes == {"raises", "no_papers", "save_failed", "saved"}

NoResult == [recorded |-> FALSE, success |-> FALSE, error |-> "", output_file |-> FALSE]

record_conference_unless_raised(map, name, outcome) ==
    CASE outcome = "saved" ->
             [map EXCEPT ![name] = [recorded |-> TRUE, success |-> TRUE, error |-> "",
                                    output_file |-> TRUE]]
      [] outcome = "no_papers" ->
             [map EXCEPT ![name] = [recorded |-> TRUE, success |-> FALSE,
                                    error |-> "no_papers", output_file |-> FALSE]]
      [] OTHER -> map

\* Lines 332-363 of openreview_fetcher.py: what the loop body leaves in
\* results[conference_name].
record_conference(map, name, outcome) ==
    CASE outcome = "saved" ->
             [map EXCEPT ![name] = [recorded |-> TRUE, success |-> TRUE, error |-> "",
                                    output_file |-> TRUE]]
      [] outcome = "no_papers" ->
             [map EXCEPT ![name] = [recorded |-> TRUE, success |-> FALSE,
                                    error |-> "no_papers", output_file |-> FALSE]]
      [] outcome = "raises" ->
             [map EXCEPT ![name] = [recorded |-> TRUE, success |-> FALSE,
                                    error |-> "raised", output_file |-> FALSE]]
      [] OTHER -> map

\* One iteration of `for conference_config in conference_list`.
ConferenceFetchStep ==
    /\ conf.pc = "loop"
    /\ \E outcome \in ConferenceOutcomes :
         LET i == Len(conf.outcomes) + 1
             name == conf.conference_list[i]
         IN  /\ results' = record_conference(results, name, outcome)
             /\ output_files' = IF outcome = "saved" THEN output_files \cup {name}
                                ELSE output_files
             /\ conf' = [conf EXCEPT !.outcomes = Append(conf.outcomes, outcome),
                                     !.pc = IF i = Len(conf.conference_list)
                                            THEN "done" ELSE "loop"]
    /\ UNCHANGED <<channel, clock, feedVars, venueVars, procVars, fetchVars, orchVars, dataVars, sel, sched>>

ConfIdle ==
    /\ conf = [pc |-> "idle", conference_list |-> <<>>, outcomes |-> <<>>]
    /\ results = [c \in ConferenceNames |-> NoResult]
    /\ output_files = {}

\* ========================================================= orchestrator ===
\* Calls of fetch_latest_papers one run is followed for.
MaxCalls == 4

\* main.py:327, 442.
o_max_retries == 3

EntryPoints == {"run_pipeline", "run_basic_pipeline", "run_pipeline_with_subscription"}

Stages == {"fetch", "filter", "emit", "deliver", "analysis"}

\* Lines 315-317, 428-431.
fetch_max(max_days, categories_count) ==
    Min(1000, Max(100, max_days * categories_count * 15))

\* The keys of config.yaml the entry points branch on.
OrchConfigs ==
    [email_subscription : BOOLEAN, auto_analysis_enabled : BOOLEAN, max_days_old : {1, 10}]

\* config.yaml as load_config finds it: config_loader.py:28-46.
ConfigFiles == {"absent", "no_keywords", "no_max_results", "complete"}

load_config_lenient(file) == file # "absent"

\* config_loader.py:28-46: TRUE when a configuration is returned, FALSE when
\* FileNotFoundError or ValueError is raised (and raised again at line 85).
load_config(file) == file = "complete"

\* The locals of an entry point when it is entered.
orch_start(entry, config) ==
    [entry |-> entry, pc |-> "load_config", config |-> config, config_bound |-> FALSE,
     config_file |-> "unread", retry_count |-> 0, calls |-> 0, fetch_call |-> "none",
     papers |-> 0, processed |-> 0, email_sent |-> FALSE, ai |-> "none",
     outcome |-> "running", success |-> FALSE, error |-> "", failed |-> {}]

returns_analysis_success(s) ==
    [s EXCEPT !.pc = "end", !.outcome = "returned", !.success = (s.ai # "failed")]

\* return {"success": True, ...}
returns_success(s) ==
    [s EXCEPT !.pc = "end", !.outcome = "returned", !.success = TRUE]

\* The except clause of the entry point: lines 198-204, 397-403, 542-550.
\* run_pipeline reads config in its handler (line 544), which is unbound when
\* load_config raised.
on_exception(s, who) ==
    IF s.entry = "run_pipeline" /\ ~s.config_bound
    THEN [s EXCEPT !.pc = "end", !.outcome = "escaped", !.failed = s.failed \cup {who}]
    ELSE [s EXCEPT !.pc = "end", !.outcome = "returned", !.success = FALSE,
                   !.error = who, !.failed = s.failed \cup {who}]

\* Lines 333-335, 448-450: fetch_latest_papers returned n papers.
fetch_returned(s, n) ==
    IF n > 0
    THEN [s EXCEPT !.pc = "filter", !.papers = n, !.fetch_call = "returned"]
    ELSE [s EXCEPT !.pc = "fetch", !.papers = 0, !.fetch_call = "returned"]

\* Lines 336-341, 451-456: fetch_latest_papers raised.
fetch_raised(s) ==
    LET retry_count == s.retry_count + 1
        t == [s EXCEPT !.retry_count = retry_count, !.fetch_call = "raised"]
    IN  IF retry_count >= o_max_retries
        THEN on_exception(t, "fetch")
        ELSE [t EXCEPT !.pc = "fetch"]

analysis_gate_without_delivery(processed, auto_analysis_enabled, email_sent) ==
    processed > 0 /\ auto_analysis_enabled

\* Line 162.
analysis_gate(processed, auto_analysis_enabled, email_sent) ==
    processed > 0 /\ auto_analysis_enabled /\ email_sent

\* Lines 160-194, once result['email_sent'] is set.
after_delivery(s, email_sent) ==
    LET t == [s EXCEPT !.email_sent = email_sent]
    IN  IF analysis_gate(s.processed, s.config.auto_analysis_enabled, email_sent)
        THEN [t EXCEPT !.pc = "select"]
        ELSE returns_success([t EXCEPT !.ai = "skipped"])

StageIs(stage, status) == [o_stages EXCEPT ![stage] = status]

\* Where the run has ended, the stage that raised has failed.
stage_after(s, stage, status) ==
    IF s.outcome = "running" \/ s.success THEN StageIs(stage, status)
    ELSE StageIs(stage, "failed")

OrchOnly == UNCHANGED <<channel, clock, feedVars, venueVars, procVars, fetchVars, dataVars, confVars, sel, sched>>

\* config = load_config(): lines 311, 423.
OrchLoadConfig ==
    /\ orch.pc = "load_config"
    /\ \E file \in ConfigFiles :
         orch' = LET s == [orch EXCEPT !.config_file = file]
                 IN  IF load_config(file)
                     THEN [s EXCEPT !.pc = "fetch", !.config_bound = TRUE]
                     ELSE on_exception(s, "load_config")
    /\ UNCHANGED o_stages
    /\ OrchOnly

\* One call of fetch_latest_papers in which the arxiv library answers, or in
\* which the arguments make both strategies raise before any request.
OrchFetchPrimary ==
    /\ orch.pc = "fetch"
    /\ orch.calls < MaxCalls
    /\ \E r \in {"papers", "empty", "bad_arguments"} :
         /\ orch' = LET s == [orch EXCEPT !.calls = orch.calls + 1]
                    IN  CASE r = "papers" -> fetch_returned(s, 1)
                          [] r = "empty" -> fetch_returned(s, 0)
                          [] OTHER -> fetch_raised(s)
         /\ o_stages' = IF orch'.pc = "filter" THEN StageIs("fetch", "succeeded")
                        ELSE IF orch'.pc = "end" THEN StageIs("fetch", "failed")
                        ELSE StageIs("fetch", "started")
    /\ OrchOnly

\* One call of fetch_latest_papers in which the arxiv library raises and
\* _fetch_via_feedparser is entered (arxiv_fetcher.py:46-49).
OrchFetchFallback ==
    /\ orch.pc = "fetch"
    /\ orch.calls < MaxCalls
    /\ orch' = [orch EXCEPT !.calls = orch.calls + 1, !.pc = "fallback"]
    /\ o_stages' = StageIs("fetch", "started")
    /\ fetch' = fetch_start(1, fetch_max(orch.config.max_days_old, 1),
                            orch.config.max_days_old)
    /\ f_last' = [batch |-> -1, start |-> -1, result |-> "none"]
    /\ f_count' = 0
    /\ f_sleeps' = <<>>
    /\ f_exhausted' = NoPage
    /\ f_collected' = 0
    /\ UNCHANGED <<channel, clock, feedVars, venueVars, procVars, dataVars, confVars, sel, sched>>

\* _fetch_via_feedparser has returned its list: arxiv_fetcher.py:224-225, 49.
OrchFallbackReturns ==
    /\ orch.pc = "fallback"
    /\ fetch.pc = "done"
    /\ orch' = fetch_returned(orch, fetch.all_papers)
    /\ o_stages' = IF orch'.pc = "filter" THEN StageIs("fetch", "succeeded") ELSE o_stages
    /\ UNCHANGED <<channel, clock, feedVars, venueVars, procVars, fetchVars, dataVars, confVars, sel, sched>>

\* processed_papers = process_papers(papers, config): lines 346-349, 461-466.
OrchFilter ==
    /\ orch.pc = "filter"
    /\ \E r \in {-1, 0, 1} :
         /\ orch' = IF r < 0 THEN on_exception(orch, "filter")
                    ELSE IF r = 0 THEN returns_success([orch EXCEPT !.processed = 0])
                    ELSE [orch EXCEPT !.processed = r,
                                      !.pc = IF orch.entry = "run_pipeline"
                                             THEN "analysis" ELSE "emit"]
         /\ o_stages' = stage_after(orch', "filter", "succeeded")
    /\ OrchOnly

\* run_ai_analysis: lines 467-477 (before the RSS of run_pipeline is
\* generated) and lines 169-191.
OrchAnalysis ==
    /\ orch.pc = "analysis"
    /\ \E r \in {"success", "failure", "raises"} :
         /\ orch' = LET t == [orch EXCEPT !.ai = IF r = "success" THEN "success" ELSE "failed",
                                          !.failed = IF r = "success" THEN orch.failed
                                                     ELSE orch.failed \cup {"analysis"}]
                    IN  IF orch.entry = "run_pipeline" THEN [t EXCEPT !.pc = "emit"]
                        ELSE returns_success(t)
         /\ o_stages' = StageIs("analysis", IF r = "success" THEN "succeeded" ELSE "failed")
    /\ OrchOnly

\* generate_rss and save_history_record: lines 350-387, 479-533.
\* save_history_record returns None when it fails (lines 131-133).
OrchEmit ==
    /\ orch.pc = "emit"
    /\ \E rss \in BOOLEAN, history \in BOOLEAN :
         /\ orch' = IF ~rss THEN on_exception(orch, "generate_rss")
                    ELSE LET t == [orch EXCEPT !.failed = IF history THEN orch.failed
                                                          ELSE orch.failed \cup {"history"}]
                         IN  IF orch.entry = "run_pipeline_with_subscription"
                             THEN [t EXCEPT !.pc = "reload_config", !.success = TRUE]
                             ELSE returns_success(t)
         /\ o_stages' = StageIs("emit", IF rss THEN "succeeded" ELSE "failed")
    /\ OrchOnly

\* Lines 143-158: config = load_config() and the test of email_subscription.
OrchReloadConfig ==
    /\ orch.pc = "reload_config"
    /\ \E ok \in BOOLEAN :
         orch' = IF ~ok THEN on_exception(orch, "load_config")
                 ELSE IF orch.config.email_subscription THEN [orch EXCEPT !.pc = "deliver"]
                 ELSE after_delivery(orch, FALSE)
    /\ UNCHANGED o_stages
    /\ OrchOnly

\* subscription_result = run_subscription(): lines 149-155.
OrchDeliver ==
    /\ orch.pc = "deliver"
    /\ \E r \in {"sent", "not_sent", "raises"} :
         /\ orch' = IF r = "raises" THEN on_exception(orch, "run_subscription")
                    ELSE after_delivery([orch EXCEPT !.failed = IF r = "sent" THEN orch.failed
                                                     ELSE orch.failed \cup {"run_subscription"}],
                                        r = "sent")
         /\ o_stages' = StageIs("deliver", IF r = "sent" THEN "succeeded" ELSE "failed")
    /\ OrchOnly

\* selected_papers = select_papers_for_ai_analysis(...): lines 166-169, 186-188.
OrchSelect ==
    /\ orch.pc = "select"
    /\ \E n \in {0, 1} :
         orch' = IF n > 0 THEN [orch EXCEPT !.pc = "analysis"]
                 ELSE returns_success([orch EXCEPT !.ai = "failed"])
    /\ UNCHANGED o_stages
    /\ OrchOnly

OrchIdle ==
    /\ orch = [orch_start("none", [email_subscription |-> FALSE,
                                   auto_analysis_enabled |-> FALSE, max_days_old |-> 1])
               EXCEPT !.pc = "end"]
    /\ o_stages = [st \in Stages |-> "idle"]

\* ============================================================ selection ===
\* Papers handed to select_papers_for_ai_analysis.
MaxSelect == 3

\* Scores are in hundredths.  Lines 238-303: the base term, the term of one
\* matched keyword and the recency bonus, clamped at 1.0.
calculate_paper_selection_score(paper) ==
    Min(50 + 10 * paper.keywords + paper.recency, 100)

\* list.sort(key=score, reverse=True): stable, highest first.
RECURSIVE sort_by_score_desc(_)
sort_by_score_desc(ps) ==
    IF ps = <<>> THEN <<>>
    ELSE LET rest == sort_by_score_desc(Tail(ps))
             x == Head(ps)
             before == SelectSeq(rest, LAMBDA q : calculate_paper_selection_score(q)
                                                    > calculate_paper_selection_score(x))
             after == SelectSeq(rest, LAMBDA q : calculate_paper_selection_score(q)
                                                   <= calculate_paper_selection_score(x))
         IN  before \o <<x>> \o after

\* seq[:n]
FirstN(seq, n) == SubSeq(seq, 1, Min(n, Len(seq)))

scored_papers_in_input_order(papers, min_score_threshold) ==
    SelectSeq(papers, LAMBDA q : calculate_paper_selection_score(q) >= min_score_threshold)

\* Lines 216-223.
scored_papers(papers, min_score_threshold) ==
    sort_by_score_desc(
        SelectSeq(papers, LAMBDA q : calculate_paper_selection_score(q) >= min_score_threshold))

\* Lines 208-236.  config.raises: a statement of the try block raises (a
\* smart_selection key without a value, a threshold that is not a number).
select_papers_for_ai_analysis(papers, config) ==
    IF config.raises
    THEN FirstN(papers, config.max_papers_per_batch)
    ELSE FirstN(scored_papers(papers, config.min_score_threshold),
                config.max_papers_per_batch)

SelectionPapers == [keywords : {0, 1}, recency : {0, 30}]

SelectionConfigs ==
    [max_papers_per_batch : {1, 2}, min_score_threshold : {60, 85}, raises : BOOLEAN]

SelectionWithIds(raw) ==
    [i \in 1..Len(raw) |->
        [id |-> i, keywords |-> raw[i].keywords, recency |-> raw[i].recency]]

SelectPapers ==
    /\ sel.pc = "call"
    /\ sel' = [sel EXCEPT !.pc = "done",
                          !.selected = select_papers_for_ai_analysis(sel.papers, sel.config)]
    /\ UNCHANGED <<channel, clock, feedVars, venueVars, procVars, fetchVars, orchVars,
                   dataVars, confVars, sched>>

SelIdle ==
    sel = [pc |-> "idle", papers |-> <<>>, selected |-> <<>>,
           config |-> [max_papers_per_batch |-> 1, min_score_threshold |-> 60,
                       raises |-> FALSE]]

\* ============================================================ scheduler ===
\* self.config is a dict whose 'conferences' value is another dict object;
\* sched.config holds the reference, sched.heap the conference_list of the
\* dict referred to.
SchedulerFrequencies == {"monthly", "quarterly", "manual"}

\* Conferences of one configuration of the scheduler.
MaxScheduled == 3

SchedulerLists ==
    {l \in SeqsUpTo([name : ConferenceNames, push_frequency : SchedulerFrequencies],
                    MaxScheduled) :
        \A i \in 1..Len(l), j \in 1..Len(l) : l[i].name = l[j].name => i = j}

\* Lines 55-66: the names setup_scheduler hands to the job.
names_with(conference_list, frequency) ==
    {conference_list[i].name : i \in {j \in 1..Len(conference_list) :
                                         conference_list[j].push_frequency = frequency}}

conference_list_of(s) == s.heap[s.config.conferences]

\* dict.copy(): a new dict with the same values; the value of 'conferences'
\* is the reference to the same dict object.
shallow_copy(config) == config

\* Lines 105-130 and 135-160.
run_scheduled_conferences(s, conference_names, pipeline) ==
    LET original_config == shallow_copy(s.config)
        filtered_conferences ==
            SelectSeq(conference_list_of(s), LAMBDA c : c.name \in conference_names)
        modified == [s EXCEPT !.heap[s.config.conferences] = filtered_conferences]
    IN  IF pipeline = "raises" THEN modified
        ELSE [modified EXCEPT !.config = original_config]

PipelineOutcomes == {"result", "no_result", "raises"}

RunMonthlyConferences ==
    /\ sched.pc = "running"
    /\ sched.monthly # {}
    /\ \E pipeline \in PipelineOutcomes :
         sched' = run_scheduled_conferences(sched, sched.monthly, pipeline)
    /\ UNCHANGED <<channel, clock, feedVars, venueVars, procVars, fetchVars, orchVars,
                   dataVars, confVars, sel>>

RunQuarterlyConferences ==
    /\ sched.pc = "running"
    /\ sched.quarterly # {}
    /\ \E pipeline \in PipelineOutcomes :
         sched' = run_scheduled_conferences(sched, sched.quarterly, pipeline)
    /\ UNCHANGED <<channel, clock, feedVars, venueVars, procVars, fetchVars, orchVars,
                   dataVars, confVars, sel>>

\* Lines 28-33, 44-66.
scheduler_start(conference_list) ==
    [pc |-> "running", config |-> [conferences |-> 1], heap |-> <<conference_list>>,
     monthly |-> names_with(conference_list, "monthly"),
     quarterly |-> names_with(conference_list, "quarterly")]

SchedIdle == sched = [scheduler_start(<<>>) EXCEPT !.pc = "idle"]

\* ======================================================== specifications ===
InitDelivery ==
    /\ channel \in {"feed", "venue"}
    /\ clock = 1
    /\ FeedInit
    /\ VenueInit
    /\ ProcIdle
    /\ FetchIdle
    /\ OrchIdle
    /\ DataIdle
    /\ ConfIdle
    /\ SelIdle
    /\ SchedIdle

NextDelivery ==
    \/ RunSubscription
    \/ VenueBegin
    \/ VenueFile
    \/ VenueEnd
    \/ VenueStop

SpecDelivery == InitDelivery /\ [][NextDelivery]_vars

InitFilter ==
    /\ channel = "none"
    /\ clock = 1
    /\ FeedInit
    /\ VenueInit
    /\ p_pc = "call"
    /\ p_config \in Configs
    /\ p_now = Now
    /\ \E raw \in SeqsUpTo(PaperPool, MaxPapers) : p_papers = WithIds(raw)
    /\ p_evaluated = <<>>
    /\ processed_papers = <<>>
    /\ FetchIdle
    /\ OrchIdle
    /\ DataIdle
    /\ ConfIdle
    /\ SelIdle
    /\ SchedIdle

NextFilter == ProcessPapers

SpecFilter == InitFilter /\ [][NextFilter]_vars

InitFetch ==
    /\ channel = "none"
    /\ clock = 1
    /\ FeedInit
    /\ VenueInit
    /\ ProcIdle
    /\ \E c \in FetchInputs : fetch = fetch_start(c.categories, c.max_results, c.max_days_old)
    /\ f_last = [batch |-> -1, start |-> -1, result |-> "none"]
    /\ f_count = 0
    /\ f_sleeps = <<>>
    /\ f_exhausted = NoPage
    /\ f_collected = 0
    /\ OrchIdle
    /\ DataIdle
    /\ ConfIdle
    /\ SelIdle
    /\ SchedIdle

NextFetch == FetchFails \/ FetchReturns \/ FetchRaises

SpecFetch == InitFetch /\ [][NextFetch]_vars

InitPipeline ==
    /\ channel = "none"
    /\ clock = 1
    /\ FeedInit
    /\ VenueInit
    /\ ProcIdle
    /\ FetchIdle
    /\ \E entry \in EntryPoints, config \in OrchConfigs : orch = orch_start(entry, config)
    /\ o_stages = [st \in Stages |-> "idle"]
    /\ DataIdle
    /\ ConfIdle
    /\ SelIdle
    /\ SchedIdle

NextPipeline ==
    \/ OrchLoadConfig
    \/ OrchFetchPrimary
    \/ OrchFetchFallback
    \/ FetchFails
    \/ FetchReturns
    \/ FetchRaises
    \/ OrchFallbackReturns
    \/ OrchFilter
    \/ OrchAnalysis
    \/ OrchEmit
    \/ OrchReloadConfig
    \/ OrchDeliver
    \/ OrchSelect

SpecPipeline == InitPipeline /\ [][NextPipeline]_vars

InitCoverage ==
    /\ channel = "none"
    /\ clock = 1
    /\ FeedInit
    /\ VenueInit
    /\ ProcIdle
    /\ fetch = fetch_start(1, 250, 200)
    /\ f_last = [batch |-> -1, start |-> -1, result |-> "none"]
    /\ f_count = 0
    /\ f_sleeps = <<>>
    /\ f_exhausted = NoPage
    /\ f_collected = 0
    /\ OrchIdle
    /\ d_dataset \in Datasets
    /\ d_boundary = [j \in Boundaries |-> 0]
    /\ d_taken = [b \in Buckets |-> 0]
    /\ ConfIdle
    /\ SelIdle
    /\ SchedIdle

NextCoverage == FetchServes

SpecCoverage == InitCoverage /\ [][NextCoverage]_vars

InitConferences ==
    /\ channel = "none"
    /\ clock = 1
    /\ FeedInit
    /\ VenueInit
    /\ ProcIdle
    /\ FetchIdle
    /\ OrchIdle
    /\ DataIdle
    /\ \E l \in ConferenceLists :
         conf = [pc |-> "loop", conference_list |-> l, outcomes |-> <<>>]
    /\ results = [c \in ConferenceNames |-> NoResult]
    /\ output_files = {}
    /\ SelIdle
    /\ SchedIdle

NextConferences == ConferenceFetchStep

InitBuckets ==
    /\ channel = "none"
    /\ clock = 1
    /\ FeedInit
    /\ VenueInit
    /\ ProcIdle
    /\ fetch = fetch_start(1, 250, 200)
    /\ f_last = [batch |-> -1, start |-> -1, result |-> "none"]
    /\ f_count = 0
    /\ f_sleeps = <<>>
    /\ f_exhausted = NoPage
    /\ f_collected = 0
    /\ OrchIdle
    /\ d_dataset \in SmallDatasets
    /\ d_boundary \in BoundaryDays
    /\ d_taken = [b \in Buckets |-> 0]
    /\ ConfIdle
    /\ SelIdle
    /\ SchedIdle

NextBuckets == FetchServes

SpecBuckets == InitBuckets /\ [][NextBuckets]_vars

InitSelection ==
    /\ channel = "none"
    /\ clock = 1
    /\ FeedInit
    /\ VenueInit
    /\ ProcIdle
    /\ FetchIdle
    /\ OrchIdle
    /\ DataIdle
    /\ ConfIdle
    /\ \E raw \in SeqsUpTo(SelectionPapers, MaxSelect), config \in SelectionConfigs :
         sel = [pc |-> "call", papers |-> SelectionWithIds(raw), selected |-> <<>>,
                config |-> config]
    /\ SchedIdle

NextSelection == SelectPapers

SpecSelection == InitSelection /\ [][NextSelection]_vars

InitScheduler ==
    /\ channel = "none"
    /\ clock = 1
    /\ FeedInit
    /\ VenueInit
    /\ ProcIdle
    /\ FetchIdle
    /\ OrchIdle
    /\ DataIdle
    /\ ConfIdle
    /\ SelIdle
    /\ \E l \in SchedulerLists : sched = scheduler_start(l)

NextScheduler == RunMonthlyConferences \/ RunQuarterlyConferences

SpecScheduler == InitScheduler /\ [][NextScheduler]_vars

InitKeywords ==
    /\ channel = "none"
    /\ clock = 1
    /\ FeedInit
    /\ VenueInit
    /\ p_pc = "call"
    /\ p_config \in KeywordConfigs
    /\ p_now = Now
    /\ \E paper \in KeywordPapers : p_papers = WithIds(<<paper>>)
    /\ p_evaluated = <<>>
    /\ processed_papers = <<>>
    /\ FetchIdle
    /\ OrchIdle
    /\ DataIdle
    /\ ConfIdle
    /\ SelIdle
    /\ SchedIdle

NextKeywords == ProcessPapers

SpecKeywords == InitKeywords /\ [][NextKeywords]_vars

SpecConferences == InitConferences /\ [][NextConferences]_vars

C2_NeverPassedTwice ==
    [][venueSavesOk => venuePassed' \cap venueSent = {}]_vars

C4_HistoryChangesOnlyAfterSuccess ==
    [][/\ subscription_file' # subscription_file => feedSend' = "ok"
       /\ conference_file' # conference_file => successful_sends > 0]_vars

\* The feed channel has a history on file and the latest run's send failed.
C4_Witness ==
    /\ channel = "feed"
    /\ subscription_file.status = "ok"
    /\ feedSend = "failed"
    /\ feedPassed # {}

\* --------------------------------------------------- claims on the filter
\* The papers argument's indices that satisfy the filter condition as the
\* three checks state it.
PassingIds ==
    {i \in 1..Len(p_papers) :
        /\ \/ p_config.keywords = <<>>
           \/ check_keywords(p_papers[i], p_config.keywords) # <<>>
        /\ check_recency(p_papers[i], p_now, p_config.max_days_old)
        /\ \/ ~p_config.date_range.given
           \/ check_date_range(p_papers[i], p_config.date_range)}

\* C5: process_papers returns a paper if and only if (there are no keywords
\* or check_keywords finds a match) and check_recency holds and (no
\* date_range is configured or check_date_range holds); each such paper once.
C5_KeepsExactlyThePassing ==
    p_pc = "done" =>
        /\ {q.id : q \in Range(processed_papers)} = PassingIds
        /\ Len(processed_papers) = Cardinality(PassingIds)

\* With a keyword and a date range configured, one paper was kept and a
\* recent paper inside the range was dropped for matching no keyword.
C5_Witness ==
    /\ p_pc = "done"
    /\ p_config.keywords # <<>>
    /\ p_config.date_range.given
    /\ processed_papers # <<>>
    /\ \E i \in 1..Len(p_papers) :
          /\ i \notin PassingIds
          /\ p_evaluated[i].is_recent
          /\ p_evaluated[i].is_in_date_range

\* The hour count of the later of published and updated.
LaterHours(paper) ==
    IF paper.updated # NoDate /\ Hours(paper.updated) > Hours(paper.published)
    THEN Hours(paper.updated)
    ELSE Hours(paper.published)

\* C6: for a paper with a publication date, check_recency holds exactly when
\* the whole-day age of the later of published and updated, 0 for a date in
\* the future, is at most max_days_old: that is, when less than
\* max_days_old + 1 whole days lie between that date and now.
C6_RecencyBoundary ==
    p_pc = "done" =>
        \A i \in 1..Len(p_papers) :
            p_papers[i].published # NoDate =>
                (p_evaluated[i].is_recent <=>
                    Hours(p_now) - LaterHours(p_papers[i])
                        < 24 * (p_config.max_days_old + 1))

\* One paper published max_days_old + 1 days ago passes through its newer
\* update, and a paper dated in the future passes.
C6_Witness ==
    /\ p_pc = "done"
    /\ \E i \in 1..Len(p_papers) :
          /\ p_papers[i].published # NoDate
          /\ DeltaDays(p_now, p_papers[i].published) = p_config.max_days_old + 1
          /\ p_evaluated[i].is_recent
    /\ \E j \in 1..Len(p_papers) :
          /\ p_papers[j].published # NoDate
          /\ Hours(p_papers[j].published) > Hours(p_now)
          /\ p_evaluated[j].is_recent

\* C7: with a date range given, check_date_range accepts a paper exactly when
\* it has a publication date whose year is the range's year, if one is given,
\* and whose month is the range's month, if one is given.
C7_DateRangeComposition ==
    (p_pc = "done" /\ p_config.date_range.given) =>
        \A i \in 1..Len(p_papers) :
            p_evaluated[i].is_in_date_range <=>
                /\ p_papers[i].published # NoDate
                /\ p_config.date_range.year # 0 =>
                      p_papers[i].published.year = p_config.date_range.year
                /\ p_config.date_range.month # 0 =>
                      p_papers[i].published.month = p_config.date_range.month

\* Year and month are given; a paper of that month in another year is
\* rejected and a paper of that year and month is accepted.
C7_Witness ==
    /\ p_pc = "done"
    /\ p_config.date_range.given
    /\ p_config.date_range.year # 0
    /\ p_config.date_range.month # 0
    /\ \E i, j \in 1..Len(p_papers) :
          /\ p_papers[i].published.month = p_config.date_range.month
          /\ p_papers[i].published.year # p_config.date_range.year
          /\ ~p_evaluated[i].is_in_date_range
          /\ p_evaluated[j].is_in_date_range

\* C8 (as stated): the returned papers are in descending order of the date
\* the recency check used (updated when it is newer than published).
C8_SortedByRecencyDate ==
    p_pc = "done" =>
        \A k \in 1..(Len(processed_papers) - 1) :
            LaterHours(processed_papers[k]) >= LaterHours(processed_papers[k + 1])

\* C8 (amended): the returned papers are in descending order of published.
C8_SortedByPublished ==
    p_pc = "done" =>
        \A k \in 1..(Len(processed_papers) - 1) :
            Hours(processed_papers[k].published)
                >= Hours(processed_papers[k + 1].published)

\* Two papers were returned in the reverse of their input order.
C8_Witness ==
    /\ p_pc = "done"
    /\ Len(processed_papers) >= 2
    /\ processed_papers[1].id > processed_papers[2].id
    /\ Hours(processed_papers[1].published) > Hours(processed_papers[2].published)


\* --------------------------------------------------- claims on the fetch
LastPage == [batch |-> f_last.batch, start |-> f_last.start]

\* C9: every page is requested at most 3 times; the same page is requested
\* again only when the attempt before it failed on the network, and then
\* after a sleep of 2^k seconds, k being the number of attempts made so far;
\* the third failure exhausts the page and the next request, if any, is for
\* a later page.
C9_RetryBudget ==
    [][LET ThisPage == [batch |-> f_last'.batch, start |-> f_last'.start]
       IN  /\ f_count' <= 3
           /\ (ThisPage = LastPage) <=> (f_last.result = "failed")
           /\ ThisPage = LastPage =>
                  /\ f_count' = f_count + 1
                  /\ f_sleeps = <<2 ^ f_count>>
           /\ ThisPage # LastPage =>
                  /\ f_count' = 1
                  /\ \/ ThisPage.batch > LastPage.batch
                     \/ ThisPage.batch = LastPage.batch /\ ThisPage.start > LastPage.start
           /\ (f_last'.result = "exhausted") <=>
                  (f_count' = 3 /\ f_last'.result \notin {"ok", "empty", "raised"})
      ]_vars

\* A page failed three times, after sleeps of 2 and then 4 seconds, and the
\* fetch went on.
C9_Witness ==
    /\ f_last.result = "exhausted"
    /\ f_count = 3
    /\ f_exhausted = LastPage
    /\ fetch.pc = "page"

\* C10 (as stated): once a page has exhausted its attempts, no later request
\* is made in the fetch without buckets, or in the bucket, it belongs to.
C10_BatchAborted ==
    [][f_exhausted # NoPage => f_last'.batch # f_exhausted.batch]_vars

\* C10 (amended): once a page has exhausted its attempts, the fetch sleeps
\* 5 seconds and the next request is for the next page of the same fetch or
\* bucket whenever that fetch or bucket has a page left.
C10_NextPageAfterExhausted ==
    [][f_last.result = "exhausted" =>
           /\ f_sleeps = <<error_delay>>
           /\ IF f_last.start + page_size < fetch.limit
              THEN /\ f_last'.batch = f_last.batch
                   /\ f_last'.start = f_last.start + page_size
              ELSE /\ f_last'.batch = f_last.batch + 1
                   /\ f_last'.start = 0
      ]_vars

\* The page after an exhausted one, in the same fetch or bucket, has been
\* requested.
C10_Witness ==
    /\ f_exhausted # NoPage
    /\ f_last.batch = f_exhausted.batch
    /\ f_last.start = f_exhausted.start + page_size

\* --------------------------------------------- claims on the orchestrator
\* The fallback made requests for one page only, and that page used up its
\* attempts: every page request of the fallback failed.
FallbackFailed ==
    /\ orch.pc = "fallback"
    /\ fetch.pc = "done"
    /\ f_last.result = "exhausted"
    /\ f_last.start = 0
    /\ f_collected = 0

\* C11: when the primary strategy raised and every page request of the
\* fallback used up its attempts, the call of fetch_latest_papers ends by
\* raising to the orchestrator.
C11_TotalFailureRaises ==
    [][FallbackFailed => orch'.fetch_call = "raised"]_vars

\* ------------------------------------------- further claims on the fetch
\* Entries in the paper lists of the fetch: all_papers, and the batch_papers
\* of the bucket at hand.
InLists ==
    IF fetch.batched /\ fetch.pc = "page"
    THEN fetch.all_papers + fetch.batch_papers
    ELSE IF fetch.pc = "page" THEN fetch.batch_papers ELSE fetch.all_papers

\* C12: every entry appended since the fetch began is in its lists, and in
\* the list it returns, whatever failed since.
C12_CollectedAreReturned == InLists = f_collected

\* Papers were collected, a later page used up its attempts, and the fetch
\* returned.
C12_Witness ==
    /\ fetch.pc = "done"
    /\ f_collected > 0
    /\ f_last.result = "exhausted"
    /\ f_last.start > 0

\* C13: the buckets are started one after the other from the most recent;
\* a bucket is started only while fewer than max_results papers are
\* collected; the fetch ends after bucket ceil(D / 90) or with max_results
\* reached, whatever failed in a bucket.
C13_BucketsInOrder ==
    [][fetch.batched =>
         /\ f_last'.batch \in {f_last.batch, f_last.batch + 1}
         /\ f_last'.batch # f_last.batch =>
                f_last'.start = 0 /\ f_collected < fetch.max_results
         /\ fetch.num_batches * batch_days >= fetch.max_days_old
         /\ (fetch.num_batches - 1) * batch_days < fetch.max_days_old
         /\ fetch'.pc = "done" =>
                \/ f_last'.batch + 1 = fetch.num_batches
                \/ f_collected' >= fetch.max_results
      ]_vars

\* The 200-day fetch has requested pages of 3 buckets although a page of
\* the first bucket used up its attempts.
C13_Witness ==
    /\ fetch.max_days_old = 200
    /\ fetch.pc = "done"
    /\ f_last.batch = 2
    /\ f_exhausted = [batch |-> 0, start |-> 0]

\* C15: after a page with no entries, the next request (if any) is for a
\* later bucket; the step that receives the empty page keeps what was
\* collected and, without buckets, ends the fetch with it.
C15_EmptyPageStops ==
    [][/\ f_last.result = "empty" => fetch.batched /\ f_last'.batch > f_last.batch
       /\ f_last'.result = "empty" =>
              /\ f_collected' = f_collected
              /\ ~fetch.batched => fetch'.pc = "done" /\ fetch'.all_papers = f_collected
      ]_vars

\* An empty first page ended a fetch without buckets.
C15_Witness ==
    /\ ~fetch.batched
    /\ fetch.limit > page_size
    /\ fetch.pc = "done"
    /\ f_last = [batch |-> 0, start |-> 0, result |-> "empty"]

\* C16: between two consecutive page requests the fetch sleeps.
C16_DelayBetweenRequests ==
    [][f_last.result # "none" => f_sleeps # <<>>]_vars

\* C14: served from one dataset with every request succeeding, the bucketed
\* fetch of the window returns every paper id that one fetch without
\* buckets, with the same ceiling, returns.
C14_BucketedCoversSingle ==
    fetch.pc = "done" =>
        IdsTaken(single_taken(d_dataset, fetch.max_results)) \subseteq IdsTaken(d_taken)

\* ----------------------------------------- claims on the conference fetch
\* C17: a conference whose processing raised is in the result map with
\* success false and its error; a conference whose papers were saved is in
\* it with success true and its output file exists; and the loop has gone
\* through every configured conference when it ends, whatever raised.
C17_SourcesIsolated ==
    /\ \A i \in 1..Len(conf.outcomes) :
         LET r == results[conf.conference_list[i]]
         IN  /\ conf.outcomes[i] = "raises" =>
                    r.recorded /\ ~r.success /\ r.error = "raised"
             /\ conf.outcomes[i] = "saved" =>
                    /\ r.recorded /\ r.success /\ r.output_file
                    /\ conf.conference_list[i] \in output_files
    /\ conf.pc = "done" => Len(conf.outcomes) = Len(conf.conference_list)
    /\ conf.pc = "loop" => Len(conf.outcomes) < Len(conf.conference_list)

\* Of three conferences the second raised and the other two were saved.
C17_Witness ==
    /\ conf.pc = "done"
    /\ conf.outcomes = <<"saved", "raises", "saved">>
    /\ Cardinality(output_files) = 2

\* ------------------------------------- further claims on the orchestrator
\* C18: no exception leaves an entry point.
C18_NeverEscapes == orch.outcome # "escaped"

\* This step is a call of run_ai_analysis.
AnalysisStarts == o_stages'.analysis # o_stages.analysis

\* C19: run_pipeline_with_subscription calls run_ai_analysis only when the
\* base pipeline of the run succeeded with at least one paper and its
\* run_subscription returned true; a run whose e-mail was not sent, was
\* disabled or failed has not started the analysis.
C19_AnalysisOnlyAfterDelivery ==
    [][orch.entry = "run_pipeline_with_subscription" =>
         /\ AnalysisStarts =>
                /\ orch.processed > 0
                /\ o_stages.emit = "succeeded"
                /\ o_stages.deliver = "succeeded"
                /\ orch.email_sent
         /\ ~orch'.email_sent => o_stages'.analysis = "idle"
      ]_vars

\* The e-mail was sent and the analysis ran.
C19_Witness ==
    /\ orch.entry = "run_pipeline_with_subscription"
    /\ orch.outcome = "returned"
    /\ orch.email_sent
    /\ o_stages.deliver = "succeeded"
    /\ o_stages.analysis = "succeeded"

\* C20: in every entry point run_ai_analysis is called only after the
\* fetch, the filter and the emit of the run succeeded.
C20_AnalysisAfterEmit ==
    [][AnalysisStarts =>
         /\ o_stages.fetch = "succeeded"
         /\ o_stages.filter = "succeeded"
         /\ o_stages.emit = "succeeded"
      ]_vars

\* C21: in run_pipeline_with_subscription no outcome of the deep analysis
\* changes the result of the base pipeline: whether a paper is selected or
\* not, whether run_ai_analysis succeeds, reports a failure or raises, and
\* when the analysis is skipped, the run returns with success set, the paper
\* counts of the base pipeline, no error, and the outcome under ai_analysis.
C21_AnalysisKeepsResult ==
    [][orch.entry = "run_pipeline_with_subscription" =>
         /\ orch.pc \in {"select", "analysis"} =>
               /\ orch'.success /\ orch.success
               /\ orch'.papers = orch.papers
               /\ orch'.processed = orch.processed
               /\ orch'.error = ""
               /\ orch'.pc = "end" =>
                     orch'.outcome = "returned" /\ orch'.ai \in {"success", "failed"}
         /\ (orch.pc \in {"reload_config", "deliver"} /\ orch'.pc = "end"
                                                      /\ orch'.error = "") =>
               /\ orch'.success
               /\ orch'.processed = orch.processed
               /\ orch'.ai = "skipped"]_vars

C21_AnalysisFailedRunSucceeded ==
    /\ orch.entry = "run_pipeline_with_subscription"
    /\ orch.outcome = "returned"
    /\ orch.success
    /\ orch.processed > 0
    /\ orch.ai = "failed"
    /\ o_stages["analysis"] = "failed"

\* C22: when load_config raises because keywords or max_results is missing,
\* the run ends without success and fetch_latest_papers was not called.
C22_ConfigErrorBeforeFetch ==
    orch.config_file \in {"no_keywords", "no_max_results"} =>
        /\ orch.pc = "end"
        /\ orch.outcome \in {"returned", "escaped"}
        /\ ~orch.success
        /\ orch.calls = 0
        /\ orch.fetch_call = "none"
        /\ o_stages["fetch"] = "idle"

C22_MissingKeywordsFailed ==
    /\ orch.entry = "run_basic_pipeline"
    /\ orch.config_file = "no_keywords"
    /\ orch.outcome = "returned"
    /\ orch.error = "load_config"
    /\ orch.calls = 0

\* C27 (as stated): one run calls fetch_latest_papers at most max_retries
\* times.
C27_AtMostThreeCalls == orch.calls <= o_max_retries
\* --------------------------------------------- further claims on the delivery
\* C23: a history file that does not exist, or that cannot be read, is loaded
\* as the empty history on both channels, and the run goes on with it: the
\* feed run takes every guid of the RSS file as new, the venue run starts
\* with no sent id and no conference.
C23_UnreadableLoadsEmpty ==
    [][/\ (channel = "feed" /\ subscription_file.status \in {"absent", "corrupt"}
                            /\ clock' # clock) =>
             /\ load_subscription_history(subscription_file) =
                    [sent_papers |-> {}, last_sent |-> 0]
             /\ feedPassed' = feedRss'
       /\ (channel = "venue" /\ conference_file.status \in {"absent", "corrupt"}
                             /\ v_pc = "idle" /\ v_pc' = "loop") =>
             /\ load_conference_subscription_history(conference_file) =
                    [sent_papers |-> {}, sent_by_conference |-> EmptyDict, last_sent |-> 0]
             /\ v_sent_papers' = {}
             /\ DOMAIN v_sent_by_conference' = {}]_vars

\* A run found the file unreadable, took guids as new, and its send failed.
C23_RunOnCorruptFile ==
    /\ subscription_file.status = "corrupt"
    /\ feedPassed # {}
    /\ feedSend = "failed"
    /\ feedReturned = "False"

\* C24: a save that fails after a successful send does not change what the
\* run returns: run_subscription and process_conference_subscription return
\* True.
C24_SaveFailureStillTrue ==
    /\ (feedSend = "ok" /\ feedSave \in {"open_failed", "write_failed"}) =>
           feedReturned = "True"
    /\ (venueSave \in {"open_failed", "write_failed"}) => venueReturned = "True"

C24_SentAndSaveFailed ==
    /\ feedSend = "ok"
    /\ feedSave = "write_failed"
    /\ subscription_file.status = "corrupt"
    /\ feedReturned = "True"

\* C28 (as stated): a guid that a completed save has put in the history file
\* is in the file after every later save.
C28_SavedIdsStay ==
    subscription_file.status = "ok" => feedSaved \subseteq subscription_file.sent_papers
\* ------------------------------------------- further claims on the filter
\* The matches a reader expects: a keyword and a text are equal up to a
\* plural or a participle ending, upper case and a hyphen for a space.
ExpectedMatches ==
    {<<KeywordAgents, TextAgent>>,
     <<KeywordReinforcement, TextReinforcement>>,
     <<KeywordGraphs, TextGraphs>>}

C29_NoPaperTwice ==
    \A b1 \in Buckets, b2 \in Buckets :
        \A k1 \in 1..d_taken[b1], k2 \in 1..d_taken[b2] :
            paper_at(d_dataset, d_boundary, b1, k1) = paper_at(d_dataset, d_boundary, b2, k2)
                => (b1 = b2 /\ k1 = k2)
\* ----------------------------------------------- claims on the selection
\* What is promised of a selection r: no more than the batch size, every
\* paper at the threshold or above, highest score first, and no paper left
\* out that scores higher than a selected one.
SelectionRanked(papers, config, r) ==
    /\ Len(r) <= config.max_papers_per_batch
    /\ \A i \in 1..Len(r) :
         calculate_paper_selection_score(r[i]) >= config.min_score_threshold
    /\ \A i \in 1..Len(r), j \in 1..Len(r) :
         i < j => calculate_paper_selection_score(r[i]) >= calculate_paper_selection_score(r[j])
    /\ \A q \in Range(papers) \ Range(r), x \in Range(r) :
         calculate_paper_selection_score(q) <= calculate_paper_selection_score(x)

\* C25 (as stated): the selection is ranked on every path of
\* select_papers_for_ai_analysis, the one taken when it raises included.
C25_RankedOnEveryPath ==
    sel.pc = "done" => SelectionRanked(sel.papers, sel.config, sel.selected)

\* C25: the selection never exceeds max_papers_per_batch; when nothing raises
\* it is ranked; when the try block raises it is the first
\* max_papers_per_batch papers of the input, in input order.
C25_RankedUnlessRaised ==
    sel.pc = "done" =>
        /\ Len(sel.selected) <= sel.config.max_papers_per_batch
        /\ \A i \in 1..Len(sel.selected) : sel.selected[i] \in Range(sel.papers)
        /\ IF sel.config.raises
           THEN sel.selected = FirstN(sel.papers, sel.config.max_papers_per_batch)
           ELSE SelectionRanked(sel.papers, sel.config, sel.selected)

\* Of three papers the last scores highest and is selected first, and one
\* paper at the threshold is left out by the batch size.
C25_TopTwoOfThree ==
    /\ sel.pc = "done"
    /\ ~sel.config.raises
    /\ sel.config.min_score_threshold = 60
    /\ Len(sel.papers) = 3
    /\ Len(sel.selected) = 2
    /\ sel.selected[1].id = 3
    /\ \E q \in Range(sel.papers) \ Range(sel.selected) :
         calculate_paper_selection_score(q) >= 60

\* ----------------------------------------------- claims on the scheduler
\* C30 (as stated): a call of run_monthly_conferences or
\* run_quarterly_conferences leaves conferences.conference_list of
\* self.config as it was before the call.
C30_ConfigRestored ==
    [][conference_list_of(sched') = conference_list_of(sched)]_vars
====
